---------------------------- MODULE Spec2Model ----------------------------
(***************************************************************************)
(* Model of tbb-async-sycl.cpp: a TBB flow graph that splits a triad       *)
(* c[i] = a[i] + alpha*b[i] between a CPU function_node and an async_node  *)
(* that offloads to a SYCL queue on a one-thread task_arena, joins the two *)
(* completion tokens in a queueing join_node and verifies in out_node.     *)
(*                                                                         *)
(* Numbers.  Floats are modelled exactly: a ratio is a pair num/den with   *)
(* den a power of two and array sizes are at most 16, so array_size*ratio  *)
(* is exact in float and ceil() is the exact ceiling.  Array values are    *)
(* kept scaled by alpha_den (alpha = alpha_num/alpha_den = 1/2), which is  *)
(* exact for the values i + i/2 the program computes.                      *)
(***************************************************************************)
EXTENDS Integers, Sequences, FiniteSets, TLC

\* ------------------------------------------------------------- constants
\* const size_t array_size = 16
array_size == 16
\* const float ratio = 0.5, as ratio_num / ratio_den
ratio_num == 1
ratio_den == 2
\* const float alpha = 0.5, as alpha_num / alpha_den
alpha_num == 1
alpha_den == 2

\* --------------------------------------------------------------- bounds
\* Besides the build's own (array_size, ratio), the inputs are drawn from
\* sizes 1..MaxN and ratios k / 2^RatioBits, k in 0..2^RatioBits.
MaxN == 3
RatioBits == 2

RECURSIVE Pow2(_)
Pow2(k) == IF k = 0 THEN 1 ELSE 2 * Pow2(k - 1)

Ratios == {[num |-> k, den |-> Pow2(RatioBits)] : k \in 0..Pow2(RatioBits)}

Configs ==
    {[size |-> array_size, ratio |-> [num |-> ratio_num, den |-> ratio_den]]}
    \cup {[size |-> s, ratio |-> r] : s \in 1..MaxN, r \in Ratios}

VARIABLES
    N,            \* array_size of this run
    ratio,        \* the ratio the source emits
    c_array,      \* output array, values scaled by alpha_den
    writers,      \* history: which engines have written c_array[i]
    mainPc,       \* main(): "activate", "wait", "done"
    proc,         \* "running" or "terminated" (std::terminate)
    n,            \* the source body's guard flag
    srcPc,        \* source task: "inactive", "active", "exhausted"
    srcCalls,     \* history: invocations of the source body
    emitted,      \* history: values the source has emitted
    aTasks,       \* a_node body tasks, spawned or running
    cpuTasks,     \* cpu_node body tasks, spawned or running
    arenaQ,       \* task_arena a: enqueued functors, FIFO
    bridge,       \* the arena's one worker thread
    outstanding,  \* reserve_wait() minus release_wait() on the gateway
    port0,        \* join input 0 (from a_node), queueing
    port1,        \* join input 1 (from cpu_node), queueing
    joinCount,    \* history: tuples the join has emitted
    outTasks,     \* out_node body tasks, spawned
    outLog,       \* history: out_node invocations
    bridgeLog,    \* history: <<activation, event>> of the async path
    arrivals,     \* history: the paths whose tokens reached the join, in order
    devFailed     \* history: the device path has thrown

vars == <<N, ratio, c_array, writers, mainPc, proc, n, srcPc, srcCalls,
          emitted, aTasks, cpuTasks, arenaQ, bridge, outstanding, port0,
          port1, joinCount, outTasks, outLog, bridgeLog, arrivals,
          devFailed>>

Indices == 0..(N - 1)

\* ------------------------------------------------------- pure functions
\* ceil(x_num / den) for x_num >= 0, den > 0
Ceil(x_num, den) == (x_num + den - 1) \div den

\* faulty variants below round down where the code rounds up
Floor(x_num, den) == x_num \div den

\* main(): a_array[i] = i; b_array[i] = i
a_array(i) == i
b_array(i) == i

\* size_t array_size_sycl = ceil(array_size * offload_ratio)
\* (faulty variants: rounded down; the ratio taken as the CPU's share; the
\* ratio not applied)
array_size_sycl_all(size, r) == size
array_size_sycl_floor(size, r) == Floor(size * r.num, r.den)
array_size_sycl_complement(size, r) == Ceil(size * (r.den - r.num), r.den)
array_size_sycl(size, r) == Ceil(size * r.num, r.den)

\* size_t i_start = static_cast<size_t>(ceil(array_size * offload_ratio))
i_start_floor(size, r) == Floor(size * r.num, r.den)
i_start(size, r) == Ceil(size * r.num, r.den)

\* size_t i_end = static_cast<size_t>(array_size)
i_end(size) == size

\* kernel: c_accessor[index] = a_accessor[index] + b_accessor[index] * coeff
TriadDev(i) == a_array(i) * alpha_den + b_array(i) * alpha_num

\* cpu_node: c_array[i] = a_array[i] + alpha * b_array[i]
TriadCpu(i) == a_array(i) * alpha_den + alpha_num * b_array(i)

\* out_node: c_gold[i] = a_array[i] + alpha * b_array[i]
c_gold(i) == a_array(i) * alpha_den + alpha_num * b_array(i)

\* the source body: [emit, n] from the guard flag
\* (faulty variant: the flag is never set)
in_node_body_noguard(flag) == [emit |-> TRUE, n |-> FALSE]
in_node_body(flag) ==
    IF flag THEN [emit |-> FALSE, n |-> flag]
            ELSE [emit |-> TRUE, n |-> TRUE]

\* gateway.reserve_wait() / gateway.release_wait() on the counter
\* (faulty variants: the call is left out; the reservation is made twice)
reserve_wait_missing(cnt) == cnt
reserve_wait_twice(cnt) == cnt + 2
reserve_wait(cnt) == cnt + 1

release_wait_missing(cnt) == cnt
release_wait(cnt) == cnt - 1

\* the order of the statements of the functor enqueued by AsyncActivity::run
\* (faulty variants: release_wait() before try_put(); try_put() inside the
\* SYCL scope, before the buffers are destroyed)
BridgeNextPutInScope(pc) ==
    CASE pc = "start" -> "submit"
      [] pc = "submit" -> "wait"
      [] pc = "wait" -> "try_put"
      [] pc = "try_put" -> "writeback"
      [] pc = "writeback" -> "release"
      [] pc = "release" -> "idle"
BridgeNextReleaseFirst(pc) ==
    CASE pc = "start" -> "submit"
      [] pc = "submit" -> "wait"
      [] pc = "wait" -> "writeback"
      [] pc = "writeback" -> "release"
      [] pc = "release" -> "try_put"
      [] pc = "try_put" -> "idle"
BridgeNext(pc) ==
    CASE pc = "start" -> "submit"
      [] pc = "submit" -> "wait"
      [] pc = "wait" -> "writeback"
      [] pc = "writeback" -> "try_put"
      [] pc = "try_put" -> "release"
      [] pc = "release" -> "idle"

\* what follows the computation of array_size_sycl in the functor
\* (faulty variant: an empty range releases at once and puts no token)
BridgeAfterStartSkipEmpty(nItems) == IF nItems = 0 THEN "release" ELSE "submit"
BridgeAfterStart(nItems) == BridgeNext("start")

\* queueing join: a tuple is built when every port holds an item
\* (faulty variant: when some port does)
JoinReadyAny(p0, p1) == Len(p0) > 0 \/ Len(p1) > 0
JoinReady(p0, p1) == Len(p0) > 0 /\ Len(p1) > 0

\* queueing join: building a tuple consumes the head of a port's queue
\* (faulty variant: the head stays)
JoinPopKeep(q) == q
JoinPop(q) == Tail(q)

NoToken == [act |-> 0, val |-> 0]
JoinFront(q) == IF Len(q) > 0 THEN Head(q) ELSE NoToken

\* what an exception leaving the enqueued functor can do: the arena's
\* behaviour is undefined; the builds either terminate or drop it
EscapeOutcomes == {"terminate", "swallowed"}

\* g.wait_for_all(): the graph's reference count, one per spawned or running
\* node task plus the gateway's reservations
\* (GraphRefCountTasksOnly: the node tasks alone)
GraphRefCountTasksOnly ==
    (IF srcPc = "active" THEN 1 ELSE 0) + Cardinality(aTasks)
    + Cardinality(cpuTasks) + (IF JoinReady(port0, port1) THEN 1 ELSE 0)
    + Cardinality(outTasks)
GraphRefCount ==
    (IF srcPc = "active" THEN 1 ELSE 0) + Cardinality(aTasks)
    + Cardinality(cpuTasks) + (IF JoinReady(port0, port1) THEN 1 ELSE 0)
    + Cardinality(outTasks) + outstanding

Running == proc = "running" /\ mainPc # "done"

IdleBridge == [pc |-> "idle", act |-> 0, ratio |-> [num |-> 0, den |-> 1],
               nItems |-> 0, buf |-> [i \in {} |-> 0]]

\* ----------------------------------------------------------------- Init
\* the state at in_node.activate(): arrays initialised, graph built
Init ==
    /\ \E cfg \in Configs : N = cfg.size /\ ratio = cfg.ratio
    /\ c_array = [i \in Indices |-> 0]
    /\ writers = [i \in Indices |-> {}]
    /\ mainPc = "activate"
    /\ proc = "running"
    /\ n = FALSE
    /\ srcPc = "inactive"
    /\ srcCalls = 0
    /\ emitted = 0
    /\ aTasks = {}
    /\ cpuTasks = {}
    /\ arenaQ = <<>>
    /\ bridge = IdleBridge
    /\ outstanding = 0
    /\ port0 = <<>>
    /\ port1 = <<>>
    /\ joinCount = 0
    /\ outTasks = {}
    /\ outLog = <<>>
    /\ bridgeLog = <<>>
    /\ arrivals = <<>>
    /\ devFailed = FALSE

\* ---------------------------------------------------------------- main
\* in_node.activate(): spawns the source task
Activate ==
    /\ proc = "running"
    /\ mainPc = "activate"
    /\ mainPc' = "wait"
    /\ srcPc' = "active"
    /\ UNCHANGED <<N, ratio, c_array, writers, proc, n, srcCalls, emitted,
                   aTasks, cpuTasks, arenaQ, bridge, outstanding, port0,
                   port1, joinCount, outTasks, outLog, bridgeLog, devFailed,
                   arrivals>>

\* g.wait_for_all() returns; main returns 0
WaitForAllReturn ==
    /\ proc = "running"
    /\ mainPc = "wait"
    /\ GraphRefCount = 0
    /\ mainPc' = "done"
    /\ UNCHANGED <<N, ratio, c_array, writers, proc, n, srcPc, srcCalls,
                   emitted, aTasks, cpuTasks, arenaQ, bridge, outstanding,
                   port0, port1, joinCount, outTasks, outLog, bridgeLog,
                   devFailed,
                   arrivals>>

\* ------------------------------------------------------- graph threads
\* the source task invokes the body; an emitted value is put to a_node and
\* cpu_node (a body task each) and the source task runs again
SourceBody ==
    /\ Running
    /\ srcPc = "active"
    /\ LET r == in_node_body(n) IN
        /\ n' = r.n
        /\ srcCalls' = srcCalls + 1
        /\ IF r.emit
              THEN /\ emitted' = emitted + 1
                   /\ aTasks' = aTasks \cup
                        {[act |-> emitted + 1, ratio |-> ratio, pc |-> "reserve"]}
                   /\ cpuTasks' = cpuTasks \cup
                        {[act |-> emitted + 1, ratio |-> ratio, pc |-> "start",
                          todo |-> {}]}
                   /\ srcPc' = srcPc
              ELSE /\ srcPc' = "exhausted"
                   /\ UNCHANGED <<emitted, aTasks, cpuTasks>>
    /\ UNCHANGED <<N, ratio, c_array, writers, mainPc, proc, arenaQ, bridge,
                   outstanding, port0, port1, joinCount, outTasks, outLog,
                   bridgeLog, devFailed,
                   arrivals>>

\* a_node body -> AsyncActivity::run: gateway.reserve_wait()
RunReserve(t) ==
    /\ Running
    /\ t.pc = "reserve"
    /\ outstanding' = reserve_wait(outstanding)
    /\ aTasks' = (aTasks \ {t}) \cup {[t EXCEPT !.pc = "enqueue"]}
    /\ bridgeLog' = Append(bridgeLog, <<t.act, "reserve">>)
    /\ UNCHANGED <<N, ratio, c_array, writers, mainPc, proc, n, srcPc,
                   srcCalls, emitted, cpuTasks, arenaQ, bridge, port0, port1,
                   joinCount, outTasks, outLog, devFailed,
                   arrivals>>

\* AsyncActivity::run: a.enqueue(functor); the a_node body returns
RunEnqueue(t) ==
    /\ Running
    /\ t.pc = "enqueue"
    /\ arenaQ' = Append(arenaQ, [act |-> t.act, ratio |-> t.ratio])
    /\ aTasks' = aTasks \ {t}
    /\ bridgeLog' = Append(bridgeLog, <<t.act, "enqueue">>)
    /\ UNCHANGED <<N, ratio, c_array, writers, mainPc, proc, n, srcPc,
                   srcCalls, emitted, cpuTasks, bridge, outstanding, port0,
                   port1, joinCount, outTasks, outLog, devFailed,
                   arrivals>>

\* cpu_node body: i_start, i_end
CpuStart(t) ==
    /\ Running
    /\ t.pc = "start"
    /\ cpuTasks' = (cpuTasks \ {t}) \cup
          {[t EXCEPT !.pc = "loop",
                     !.todo = i_start(N, t.ratio)..(i_end(N) - 1)]}
    /\ UNCHANGED <<N, ratio, c_array, writers, mainPc, proc, n, srcPc,
                   srcCalls, emitted, aTasks, arenaQ, bridge, outstanding,
                   port0, port1, joinCount, outTasks, outLog, bridgeLog,
                   devFailed,
                   arrivals>>

\* cpu_node body: tbb::parallel_for writes each index of the range once, the
\* chunks in any order
CpuWrite(t, i) ==
    /\ Running
    /\ t.pc = "loop"
    /\ i \in t.todo
    /\ i \in Indices
    /\ c_array' = [c_array EXCEPT ![i] = TriadCpu(i)]
    /\ writers' = [writers EXCEPT ![i] = @ \cup {"cpu"}]
    /\ cpuTasks' = (cpuTasks \ {t}) \cup {[t EXCEPT !.todo = @ \ {i}]}
    /\ UNCHANGED <<N, ratio, mainPc, proc, n, srcPc, srcCalls, emitted,
                   aTasks, arenaQ, bridge, outstanding, port0, port1,
                   joinCount, outTasks, outLog, bridgeLog, devFailed,
                   arrivals>>

\* cpu_node body returns tbb_result: the token goes to join port 1
CpuReturn(t) ==
    /\ Running
    /\ t.pc = "loop"
    /\ t.todo = {}
    /\ port1' = Append(port1, [act |-> t.act, val |-> 1])
    /\ cpuTasks' = cpuTasks \ {t}
    /\ arrivals' = Append(arrivals, "cpu")
    /\ UNCHANGED <<N, ratio, c_array, writers, mainPc, proc, n, srcPc,
                   srcCalls, emitted, aTasks, arenaQ, bridge, outstanding,
                   port0, joinCount, outTasks, outLog, bridgeLog, devFailed>>

\* join_node<tuple<double, double>, queueing>: the forward task pops one item
\* of each port and puts the tuple to out_node
\* (faulty variant JoinForwardPartial: emits with one port empty)
JoinForwardPartial ==
    /\ Running
    /\ JoinReadyAny(port0, port1)
    /\ outTasks' = outTasks \cup
          {[dev |-> JoinFront(port0).act, cpu |-> JoinFront(port1).act,
            seq |-> joinCount + 1]}
    /\ port0' = IF Len(port0) > 0 THEN JoinPop(port0) ELSE port0
    /\ port1' = IF Len(port1) > 0 THEN JoinPop(port1) ELSE port1
    /\ joinCount' = joinCount + 1
    /\ UNCHANGED <<N, ratio, c_array, writers, mainPc, proc, n, srcPc,
                   srcCalls, emitted, aTasks, cpuTasks, arenaQ, bridge,
                   outstanding, outLog, bridgeLog, devFailed,
                   arrivals>>
JoinForward ==
    /\ Running
    /\ JoinReady(port0, port1)
    /\ outTasks' = outTasks \cup
          {[dev |-> Head(port0).act, cpu |-> Head(port1).act,
            seq |-> joinCount + 1]}
    /\ port0' = JoinPop(port0)
    /\ port1' = JoinPop(port1)
    /\ joinCount' = joinCount + 1
    /\ UNCHANGED <<N, ratio, c_array, writers, mainPc, proc, n, srcPc,
                   srcCalls, emitted, aTasks, cpuTasks, arenaQ, bridge,
                   outstanding, outLog, bridgeLog, devFailed,
                   arrivals>>

\* out_node body: c_gold, std::equal(c_array, c_gold), the verdict
OutBody(t) ==
    /\ Running
    /\ outLog' = Append(outLog,
          [dev |-> t.dev, cpu |-> t.cpu,
           verdict |-> IF \A i \in Indices : c_array[i] = c_gold(i)
                          THEN "correct" ELSE "error",
           once |-> \A i \in Indices : Cardinality(writers[i]) = 1])
    /\ outTasks' = outTasks \ {t}
    /\ UNCHANGED <<N, ratio, c_array, writers, mainPc, proc, n, srcPc,
                   srcCalls, emitted, aTasks, cpuTasks, arenaQ, bridge,
                   outstanding, port0, port1, joinCount, bridgeLog, devFailed,
                   arrivals>>

\* ---------------------------------------------- the arena's one thread
BridgeAt(pc) == IF pc = "idle" THEN IdleBridge ELSE [bridge EXCEPT !.pc = pc]

\* the worker takes the next functor: array_size_sycl
BridgeDequeue ==
    /\ Running
    /\ bridge.pc = "idle"
    /\ Len(arenaQ) > 0
    /\ LET w == Head(arenaQ)
           k == array_size_sycl(N, w.ratio) IN
        /\ bridge' = [pc |-> BridgeAfterStart(k), act |-> w.act,
                      ratio |-> w.ratio, nItems |-> k,
                      buf |-> [i \in {} |-> 0]]
        /\ bridgeLog' = Append(bridgeLog, <<w.act, "start">>)
    /\ arenaQ' = Tail(arenaQ)
    /\ UNCHANGED <<N, ratio, c_array, writers, mainPc, proc, n, srcPc,
                   srcCalls, emitted, aTasks, cpuTasks, outstanding, port0,
                   port1, joinCount, outTasks, outLog, devFailed,
                   arrivals>>

\* buffers over the first n_items of the arrays; q.submit: the kernel writes
\* c_accessor[index] for every index of n_items
DeviceKernel ==
    /\ Running
    /\ bridge.pc = "submit"
    /\ bridge' = [bridge EXCEPT
          !.pc = BridgeNext("submit"),
          !.buf = [i \in 0..(bridge.nItems - 1) |-> TriadDev(i)]]
    /\ UNCHANGED <<N, ratio, c_array, writers, mainPc, proc, n, srcPc,
                   srcCalls, emitted, aTasks, cpuTasks, arenaQ, outstanding,
                   port0, port1, joinCount, outTasks, outLog, bridgeLog,
                   devFailed,
                   arrivals>>

\* wait_and_throw() returns
DeviceWaitOk ==
    /\ Running
    /\ bridge.pc = "wait"
    /\ bridge' = BridgeAt(BridgeNext("wait"))
    /\ UNCHANGED <<N, ratio, c_array, writers, mainPc, proc, n, srcPc,
                   srcCalls, emitted, aTasks, cpuTasks, arenaQ, outstanding,
                   port0, port1, joinCount, outTasks, outLog, bridgeLog,
                   devFailed,
                   arrivals>>

\* the SYCL code throws: queue q has no handler and the functor no catch, so
\* the exception leaves the functor enqueued in the arena
DeviceFail ==
    /\ Running
    /\ bridge.pc = "wait"
    /\ devFailed' = TRUE
    /\ \E o \in EscapeOutcomes :
          IF o = "terminate"
             THEN proc' = "terminated" /\ bridge' = bridge
             ELSE proc' = proc /\ bridge' = IdleBridge
    /\ UNCHANGED <<N, ratio, c_array, writers, mainPc, n, srcPc, srcCalls,
                   emitted, aTasks, cpuTasks, arenaQ, outstanding, port0,
                   port1, joinCount, outTasks, outLog, bridgeLog,
                   arrivals>>

\* end of the SYCL scope: the buffers are destroyed and c_buffer is copied
\* back to the first n_items of c_array
BufferWriteBack ==
    /\ Running
    /\ bridge.pc = "writeback"
    /\ c_array' = [i \in Indices |->
          IF i < bridge.nItems THEN bridge.buf[i] ELSE c_array[i]]
    /\ writers' = [i \in Indices |->
          IF i < bridge.nItems THEN writers[i] \cup {"dev"} ELSE writers[i]]
    /\ bridge' = BridgeAt(BridgeNext("writeback"))
    /\ bridgeLog' = Append(bridgeLog, <<bridge.act, "complete">>)
    /\ UNCHANGED <<N, ratio, mainPc, proc, n, srcPc, srcCalls, emitted,
                   aTasks, cpuTasks, arenaQ, outstanding, port0, port1,
                   joinCount, outTasks, outLog, devFailed,
                   arrivals>>

\* gateway.try_put(sycl_result): the token goes to join port 0
GatewayTryPut ==
    /\ Running
    /\ bridge.pc = "try_put"
    /\ port0' = Append(port0, [act |-> bridge.act, val |-> 1])
    /\ bridge' = BridgeAt(BridgeNext("try_put"))
    /\ bridgeLog' = Append(bridgeLog, <<bridge.act, "try_put">>)
    /\ arrivals' = Append(arrivals, "dev")
    /\ UNCHANGED <<N, ratio, c_array, writers, mainPc, proc, n, srcPc,
                   srcCalls, emitted, aTasks, cpuTasks, arenaQ, outstanding,
                   port1, joinCount, outTasks, outLog, devFailed>>

\* gateway.release_wait()
GatewayRelease ==
    /\ Running
    /\ bridge.pc = "release"
    /\ outstanding' = release_wait(outstanding)
    /\ bridge' = BridgeAt(BridgeNext("release"))
    /\ bridgeLog' = Append(bridgeLog, <<bridge.act, "release">>)
    /\ UNCHANGED <<N, ratio, c_array, writers, mainPc, proc, n, srcPc,
                   srcCalls, emitted, aTasks, cpuTasks, arenaQ, port0, port1,
                   joinCount, outTasks, outLog, devFailed,
                   arrivals>>

\* ------------------------------------------------------- specification
MainThread == Activate \/ WaitForAllReturn

GraphThreads ==
    \/ SourceBody
    \/ \E t \in aTasks : RunReserve(t)
    \/ \E t \in aTasks : RunEnqueue(t)
    \/ \E t \in cpuTasks : CpuStart(t)
    \/ \E t \in cpuTasks : \E i \in t.todo : CpuWrite(t, i)
    \/ \E t \in cpuTasks : CpuReturn(t)
    \/ JoinForward
    \/ \E t \in outTasks : OutBody(t)

BridgeThread ==
    \/ BridgeDequeue
    \/ DeviceKernel
    \/ DeviceWaitOk
    \/ DeviceFail
    \/ BufferWriteBack
    \/ GatewayTryPut
    \/ GatewayRelease

Next == MainThread \/ GraphThreads \/ BridgeThread

Spec == Init /\ [][Next]_vars

\* the driving thread, the pool's threads and the arena's thread each run
\* when they have something to do
FairSpec ==
    Spec /\ WF_vars(MainThread) /\ WF_vars(GraphThreads) /\ WF_vars(BridgeThread)

\* ------------------------------------------------------------ histories
Canon == <<"reserve", "enqueue", "start", "complete", "try_put", "release">>

\* the async path's events of activation a, in order
EventsOf(a) == SelectSeq(bridgeLog, LAMBDA e : e[1] = a)

Logged(a, ev) == \E k \in 1..Len(bridgeLog) : bridgeLog[k] = <<a, ev>>

\* activations between reserve_wait() and the matching release_wait()
Reserved == {a \in 1..emitted : Logged(a, "reserve") /\ ~Logged(a, "release")}

\* the tokens that have arrived at the join's ports
DevArrived == {a \in 1..emitted : Logged(a, "try_put")}
CpuArrived == {a \in 1..emitted : \A t \in cpuTasks : t.act # a}

WrittenBy(eng) == {i \in Indices : eng \in writers[i]}

\* the coordinator's state: 0 Idle, 1 Activated, 2 Dispatched, 3 Joined,
\* 4 Drained
PhaseRank ==
    IF mainPc = "done" THEN 4
    ELSE IF joinCount >= 1 THEN 3
    ELSE IF emitted >= 1 /\ aTasks = {} /\ \A t \in cpuTasks : t.pc # "start"
         THEN 2
    ELSE IF emitted >= 1 THEN 1
    ELSE 0

\* --------------------------------------------------------------- claims
\* C1: while the gateway's counter is nonzero, or an activation is between
\* its reserve_wait() and its release_wait(), g.wait_for_all() has not
\* returned, however long the device path takes.
C1_NoEarlyReturn ==
    (outstanding # 0 \/ Reserved # {}) => mainPc # "done"

\* the device path is late: every node task has finished, the CPU token is
\* held at the join, and only the reservation keeps main waiting
C1_Witness ==
    /\ mainPc = "wait"
    /\ GraphRefCountTasksOnly = 0
    /\ outstanding = 1
    /\ Len(port1) = 1
    /\ bridge.pc = "wait"

\* C2: the async path's events of every activation occur in the order
\* reserve, enqueue (hand-off), start, device work complete, try_put,
\* release: its log is always a prefix of that sequence, and a released
\* activation's token has been put into the graph.
C2_BridgeOrder ==
    \A a \in 1..emitted :
        /\ Len(EventsOf(a)) <= Len(Canon)
        /\ \A k \in 1..Len(EventsOf(a)) : EventsOf(a)[k][2] = Canon[k]
        /\ Logged(a, "release") => a \in DevArrived

C2_Witness ==
    /\ Len(EventsOf(1)) = Len(Canon)
    /\ \A k \in 1..Len(Canon) : EventsOf(1)[k][2] = Canon[k]

\* C3: every tuple the join has emitted, and so every invocation of
\* out_node, is of a device token and a CPU token that had both arrived;
\* a token whose sibling has not arrived stays in its port's queue.
C3_NoPartialEmission ==
    /\ \A t \in outTasks : t.dev \in DevArrived /\ t.cpu \in CpuArrived
    /\ \A k \in 1..Len(outLog) :
          outLog[k].dev \in DevArrived /\ outLog[k].cpu \in CpuArrived
    /\ joinCount <= Cardinality(DevArrived)
    /\ joinCount <= Cardinality(CpuArrived)
    /\ Len(port0) = Cardinality(DevArrived) - joinCount
    /\ Len(port1) = Cardinality(CpuArrived) - joinCount

\* the build's run: both tokens arrived, the join emitted once, out_node ran
C3_Witness ==
    /\ Len(outLog) = 1
    /\ N = array_size
    /\ port0 = <<>> /\ port1 = <<>>

\* C4: whenever out_node is about to run or has run, every index of c_array
\* has been written by exactly one engine, the device below array_size_sycl
\* and the CPU from i_start on, and holds the triad value; the verdict is
\* "correct".
C4_EndToEnd ==
    /\ (outTasks # {} \/ outLog # <<>>) =>
          \A i \in Indices :
              /\ c_array[i] = c_gold(i)
              /\ writers[i] = IF i < array_size_sycl(N, ratio)
                                 THEN {"dev"} ELSE {"cpu"}
    /\ \A k \in 1..Len(outLog) :
          outLog[k].verdict = "correct" /\ outLog[k].once

C4_Witness ==
    /\ Len(outLog) = 1
    /\ outLog[1].verdict = "correct"
    /\ N = MaxN
    /\ ratio.num = 1

\* C5: for the size and ratio of the run, the device range
\* [0, array_size_sycl) and the CPU range [i_start, i_end) are disjoint and
\* contiguous and cover [0, N): i_start = array_size_sycl, i_end = N; and
\* the indices each engine has written lie in its range, all of it once the
\* engine has finished.
C5_PartitionTotality ==
    LET d == array_size_sycl(N, ratio)
        s == i_start(N, ratio)
        e == i_end(N)
    IN  /\ 0 <= d /\ d <= N
        /\ s = d
        /\ e = N
        /\ (0..(d - 1)) \cup (s..(e - 1)) = Indices
        /\ (0..(d - 1)) \cap (s..(e - 1)) = {}
        /\ WrittenBy("dev") \subseteq 0..(d - 1)
        /\ WrittenBy("cpu") \subseteq s..(e - 1)
        /\ Logged(1, "complete") => WrittenBy("dev") = 0..(d - 1)
        /\ 1 \in CpuArrived => WrittenBy("cpu") = s..(e - 1)

\* N * ratio is not an integer and both engines have written their ranges
C5_Witness ==
    /\ N = 3 /\ ratio.num = 1 /\ ratio.den = 4
    /\ Logged(1, "complete")
    /\ 1 \in CpuArrived
    /\ WrittenBy("dev") = {0}
    /\ WrittenBy("cpu") = {1, 2}

C7_SingleShot ==
    /\ emitted <= 1
    /\ emitted = 1 => n
    /\ srcCalls <= 2
    /\ srcPc = "exhausted" => emitted = 1 /\ srcCalls = 2
    /\ \A t \in aTasks \cup cpuTasks : t.act = 1 /\ t.ratio = ratio
    /\ \A k \in 1..Len(arenaQ) : arenaQ[k].act = 1 /\ arenaQ[k].ratio = ratio
    /\ bridge.pc # "idle" => bridge.act = 1 /\ bridge.ratio = ratio
    /\ Cardinality({k \in 1..Len(bridgeLog) : bridgeLog[k][2] = "reserve"})
          + Cardinality({t \in aTasks : t.pc = "reserve"}) = emitted
    /\ Cardinality(cpuTasks) + Cardinality(CpuArrived) = emitted

\* the body has been invoked again after the emission, and emitted nothing
C7_Witness ==
    /\ srcPc = "exhausted"
    /\ srcCalls = 2
    /\ emitted = 1
    /\ n

\* C8: under FairSpec the coordinator's state only moves forward, one state
\* at a time (Idle, Activated, Dispatched, Joined, Drained), and unless the
\* device path throws the run reaches Drained: out_node has run, the counter
\* is zero and g.wait_for_all() has returned.
Drained == mainPc = "done" /\ Len(outLog) = emitted /\ emitted >= 1 /\ outstanding = 0

C8_Termination ==
    /\ [][PhaseRank' \in {PhaseRank, PhaseRank + 1}]_vars
    /\ ([]~devFailed) => <>Drained

C8_Witness ==
    /\ Drained
    /\ ~devFailed
    /\ PhaseRank = 4
    /\ Reserved = {}

\* C9: when the device path has thrown, no device token is in the graph,
\* the join has emitted nothing, out_node has not run, g.wait_for_all() has
\* not returned, and the process has terminated.
C9_DeviceFailureFatal ==
    devFailed =>
        /\ DevArrived = {}
        /\ joinCount = 0
        /\ outLog = <<>>
        /\ mainPc # "done"
        /\ proc = "terminated"

\* C10: with ratio 0 the device range is empty and the CPU range is all of
\* [0, N); with ratio 1 the CPU range is empty and the device range is all
\* of [0, N); in both cases each path still delivers its token: when the
\* run has drained without a device failure, the async path has put its
\* token and released, the join has fired and out_node has run on a c_array
\* written by the one engine.
C10_RatioBoundary ==
    /\ ratio.num = 0 =>
          /\ array_size_sycl(N, ratio) = 0
          /\ i_start(N, ratio) = 0
          /\ bridge.pc # "idle" => bridge.nItems = 0
          /\ WrittenBy("dev") = {}
          /\ outLog # <<>> => WrittenBy("cpu") = Indices
    /\ ratio.num = ratio.den =>
          /\ array_size_sycl(N, ratio) = N
          /\ i_start(N, ratio) = N
          /\ WrittenBy("cpu") = {}
          /\ outLog # <<>> => WrittenBy("dev") = Indices
    /\ (ratio.num \in {0, ratio.den} /\ mainPc = "done" /\ ~devFailed) =>
          /\ Logged(1, "try_put") /\ Logged(1, "release")
          /\ 1 \in CpuArrived
          /\ joinCount = 1
          /\ Len(outLog) = 1

\* ratio 0: the device path ran over the empty range and the join fired
C10_Witness ==
    /\ ratio.num = 0
    /\ N = MaxN
    /\ mainPc = "done"
    /\ Logged(1, "try_put") /\ Logged(1, "release")
    /\ Len(outLog) = 1
    /\ WrittenBy("cpu") = Indices

\* r1 <= r2 for ratios num/den
RatioLeq(r1, r2) == r1.num * r2.den <= r2.num * r1.den

AllRatios == Ratios \cup {[num |-> ratio_num, den |-> ratio_den]}

\* C11: for the size of the run and every ratio r2 not below the run's
\* ratio, the device range of the run (as computed, and as the functor uses
\* it) is no longer than the device range for r2, and the CPU range of the
\* run is no shorter than the CPU range for r2; the indices cpu_node has to
\* write are no more than the CPU range for any ratio not above the run's.
C11_PartitionMonotone ==
    \A r2 \in AllRatios :
        /\ RatioLeq(ratio, r2) =>
              /\ array_size_sycl(N, ratio) <= array_size_sycl(N, r2)
              /\ i_end(N) - i_start(N, ratio) >= i_end(N) - i_start(N, r2)
              /\ bridge.pc # "idle" => bridge.nItems <= array_size_sycl(N, r2)
        /\ RatioLeq(r2, ratio) =>
              \A t \in cpuTasks :
                  Cardinality(t.todo) <= i_end(N) - i_start(N, r2)

\* the functor has computed a device range that a larger ratio makes
\* strictly longer, and the CPU task a range that it makes strictly shorter
C11_Witness ==
    /\ N = MaxN
    /\ bridge.pc = "wait"
    /\ bridge.nItems = 1
    /\ \E t \in cpuTasks : t.pc = "loop" /\ Cardinality(t.todo) = N - 1
    /\ \E r2 \in AllRatios :
          /\ RatioLeq(ratio, r2)
          /\ bridge.nItems < array_size_sycl(N, r2)
          /\ N - 1 > i_end(N) - i_start(N, r2)

\* what c_array holds after the two paths, from the inputs alone
FinalC ==
    [i \in Indices |->
        IF i < array_size_sycl(N, ratio) THEN TriadDev(i) ELSE TriadCpu(i)]

\* C12: no index of c_array is ever written by both paths, an index once
\* written keeps its value, and whenever out_node is about to run or has run
\* c_array is FinalC, a function of the size, the ratio, a_array, b_array
\* and alpha: the same in every interleaving.
C12_Determinism ==
    /\ [](\A i \in Indices : Cardinality(writers[i]) <= 1)
    /\ []((outTasks # {} \/ outLog # <<>>) => c_array = FinalC)
    /\ [][\A i \in Indices : writers[i] # {} => c_array'[i] = c_array[i]]_vars

\* the build's run: both paths have written, and out_node has run
C12_Witness ==
    /\ N = array_size
    /\ Len(outLog) = 1
    /\ c_array = FinalC
    /\ WrittenBy("dev") # {} /\ WrittenBy("cpu") # {}
    /\ WrittenBy("dev") \cap WrittenBy("cpu") = {}

\* C14: a token is at the join only after its path has finished its writes:
\* once cpu_node has returned its token every index of [i_start, i_end) has
\* been written by the CPU and holds its value; once the functor has called
\* try_put the device work is complete and every index below array_size_sycl
\* has been copied back to c_array.
C14_TokenAfterWrites ==
    /\ 1 \in CpuArrived =>
          \A i \in i_start(N, ratio)..(i_end(N) - 1) :
              "cpu" \in writers[i] /\ c_array[i] = TriadCpu(i)
    /\ \A t \in cpuTasks : t.pc = "loop" =>
          \A i \in i_start(N, ratio)..(i_end(N) - 1) :
              i \in t.todo \/ "cpu" \in writers[i]
    /\ 1 \in DevArrived =>
          /\ Logged(1, "complete")
          /\ \A i \in 0..(array_size_sycl(N, ratio) - 1) :
                "dev" \in writers[i] /\ c_array[i] = TriadDev(i)
    /\ bridge.pc \in {"try_put", "release"} =>
          \A i \in 0..(bridge.nItems - 1) :
              "dev" \in writers[i] /\ c_array[i] = bridge.buf[i]

\* the build's run: both tokens are in the join's queues, each path has
\* written its half, and the join has not yet emitted
C14_Witness ==
    /\ N = array_size
    /\ Len(port0) = 1 /\ Len(port1) = 1
    /\ joinCount = 0
    /\ WrittenBy("dev") = 0..(array_size_sycl(N, ratio) - 1)
    /\ WrittenBy("cpu") = i_start(N, ratio)..(i_end(N) - 1)

\* C15: the a_node body has returned once the functor is enqueued, whatever
\* the device does; the tokens reach the join in either order; the join
\* emits only when both have, and then once: when the run has drained
\* without a device failure out_node has run exactly once.
C15_NonBlockingAnyOrder ==
    /\ Logged(1, "enqueue") => aTasks = {}
    /\ (Len(arenaQ) > 0 \/ bridge.pc # "idle") => aTasks = {}
    /\ arrivals \in {<<>>, <<"cpu">>, <<"dev">>, <<"cpu", "dev">>,
                     <<"dev", "cpu">>}
    /\ joinCount >= 1 => Len(arrivals) = 2
    /\ joinCount <= 1
    /\ Len(outLog) + Cardinality(outTasks) = joinCount
    /\ (mainPc = "done" /\ ~devFailed) =>
          Len(arrivals) = 2 /\ joinCount = 1 /\ Len(outLog) = 1

\* the CPU token is at the join while the device work is in flight: the
\* a_node body has returned and no node task is left
C15_Witness ==
    /\ arrivals = <<"cpu">>
    /\ bridge.pc = "wait"
    /\ aTasks = {}
    /\ GraphRefCountTasksOnly = 0
    /\ N = array_size

\* the other order: the device token is at the join while cpu_node is still
\* writing
C15_DevFirst ==
    /\ arrivals = <<"dev">>
    /\ \E t \in cpuTasks : t.pc = "loop" /\ t.todo # {}
    /\ N = array_size

\* out_node has run once, after the CPU token came first / the device token
\* came first
C15_DoneCpuFirst ==
    mainPc = "done" /\ arrivals = <<"cpu", "dev">> /\ Len(outLog) = 1

C15_DoneDevFirst ==
    mainPc = "done" /\ arrivals = <<"dev", "cpu">> /\ Len(outLog) = 1

\* how often the async path of activation a has logged ev
Count(a, ev) ==
    Cardinality({k \in 1..Len(bridgeLog) : bridgeLog[k] = <<a, ev>>})

\* C16: the gateway's counter is never negative and is the number of
\* activations that have reserved and not yet released; an activation
\* reserves once, as soon as its a_node body has passed reserve_wait(), and
\* releases at most once, exactly once when its functor has run to its end;
\* when g.wait_for_all() has returned the counter is zero and every
\* activation has reserved once and released once.
C16_ReserveReleaseBalance ==
    /\ outstanding >= 0
    /\ outstanding = Cardinality(Reserved)
    /\ \A a \in 1..emitted :
          /\ Count(a, "reserve") =
                IF \E t \in aTasks : t.act = a /\ t.pc = "reserve" THEN 0 ELSE 1
          /\ Count(a, "release") <= 1
          /\ Count(a, "release") <= Count(a, "reserve")
          /\ (/\ ~devFailed
              /\ Logged(a, "start")
              /\ bridge.act # a) => Count(a, "release") = 1
    /\ mainPc = "done" =>
          /\ outstanding = 0
          /\ \A a \in 1..emitted :
                Count(a, "reserve") = 1 /\ Count(a, "release") = 1

\* reserved and not yet released: the counter is one while the device works
C16_Witness ==
    /\ outstanding = 1
    /\ Reserved = {1}
    /\ bridge.pc = "release"
    /\ Count(1, "reserve") = 1
    /\ Count(1, "release") = 0

=============================================================================
